---------------------------- MODULE Spec2Model ----------------------------
(***************************************************************************)
(* A model of turbo-lights: the zone colour mapping of color_setting.py    *)
(* and the Monitor of led_control.py, whose two callbacks (on_power_data,  *)
(* on_hr_data) decide what is sent to the LED controller.                  *)
(*                                                                         *)
(* Python exceptions are modelled by the variable "raised": a handler that *)
(* raises keeps every assignment made before the raising statement and     *)
(* makes none of the assignments after it.                                 *)
(***************************************************************************)
EXTENDS Integers, Sequences, FiniteSets, TLC

(***************************************************************************)
(* Bounds of the model.                                                    *)
(***************************************************************************)
MaxRaw == 5        \* raw sensor values are drawn from 0..MaxRaw
MaxTime == 4       \* the clock runs from 0 to MaxTime
MaxCalls == 4      \* handler invocations per behaviour
MaxZone == 4       \* zone boundaries of the mapping specification: 0..MaxZone
MaxLeds == 3       \* number_of_leds of the mapping specification: 1..MaxLeds
MaxZoneLen == 3    \* zone sequences of the mapping specification: 2..MaxZoneLen boundaries
MaxCapacity == 3   \* number_measurements_to_average of the filter specification: 1..MaxCapacity

(***************************************************************************)
(* Configuration of the Monitor (INPUT_CONSTANTS.yaml, read at start-up).  *)
(***************************************************************************)
zones_power == <<1, 4, 5>>
zones_hr == <<0, 3, 4>>
number_leds == 2
time_delay == 2
number_measurements_to_average == 2

\* self.power_last_update = None / self.hr_last_update = None
None == -1

VARIABLES
    power,                  \* self.power: TRUE while the power channel drives the LEDs
    power_last_update,      \* self.power_last_update
    hr_last_update,         \* self.hr_last_update
    previous_color_value,   \* self.previous_color_value
    counter,                \* self.counter
    previous_power_values,  \* self.previous_power_values
    now,                    \* dt.datetime.now(), in whole seconds
    strip_log,              \* what the last handler call sent to the LED controller
    sink_last,              \* <<>> or <<e>>: the latest setting the LED controller took
    strip,                  \* self.strip of the LED controller: the colour of each LED
    raised,                 \* the exception the last handler call ended with
    calls,                  \* number of handler calls so far
    last_call,              \* "none", "power" or "hr": the handler called last
    last_value,             \* the raw value that call was given
    called_at,              \* the clock when that call was made
    power_history,          \* filter specification: the raw values on_power_data was given, oldest first
    file_contents,          \* yaml.safe_load of the constants file
    ant_constants,          \* <<>> or <<d>>: the dict get_ant_constants returned
    mzones,                 \* mapping specification: the zones argument
    mleds,                  \* mapping specification: the number_of_leds argument
    mkey,                   \* mapping specification: the key looked up last
    mres                    \* mapping specification: what that lookup gave

vars == <<power, power_last_update, hr_last_update, previous_color_value, counter,
          previous_power_values, now, strip_log, sink_last, strip, raised, calls,
          last_call, last_value, called_at, power_history, file_contents,
          ant_constants, mzones, mleds, mkey, mres>>

monitor_vars == <<power, power_last_update, hr_last_update, previous_color_value,
                  counter, previous_power_values, now, strip_log, sink_last, strip,
                  raised, calls, last_call, last_value, called_at>>

map_vars == <<mzones, mleds, mkey, mres>>

filter_vars == <<power_history>>

config_vars == <<file_contents, ant_constants>>

(***************************************************************************)
(* color_setting.get_zone_colormapping                                     *)
(***************************************************************************)
\* colormapping = (z1, ..., z8); Python index i is index i + 1 here
colormapping ==
    << <<132, 132, 130>>, <<0, 0, 255>>, <<0, 204, 34>>, <<255, 255, 0>>,
       <<255, 128, 0>>, <<255, 0, 0>>, <<251, 3, 201>>, <<255, 255, 255>> >>

\* band_range with the upper boundary included, as range(zone_value, zones[i+1] + 1)
band_range_closed(zones, i) == zones[i] .. zones[i + 1]

\* range(zone_value, zones[i+1]) of band i
band_range(zones, i) == zones[i] .. (zones[i + 1] - 1)

\* enumerate(zones[:-1])
bands(zones) == 1 .. (Len(zones) - 1)

\* led_count_high with math.ceil in place of math.floor
led_count_high_ceil(zones, i, x, number_of_leds) ==
    ((x - zones[i]) * number_of_leds + (zones[i + 1] - zones[i]) - 1)
        \div (zones[i + 1] - zones[i])

\* led_count_high counting from the key after x
led_count_high_from_next(zones, i, x, number_of_leds) ==
    ((x - zones[i] + 1) * number_of_leds) \div (zones[i + 1] - zones[i])

\* math.floor((x - zones[i]) * led_step), led_step = number_of_leds / (zones[i+1] - zones[i])
led_count_high(zones, i, x, number_of_leds) ==
    ((x - zones[i]) * number_of_leds) \div (zones[i + 1] - zones[i])

\* band_entry with each count rounded down on its own
band_entry_two_floors(zones, i, x, number_of_leds) ==
    << <<((zones[i + 1] - x) * number_of_leds) \div (zones[i + 1] - zones[i]),
         colormapping[i]>>,
       <<led_count_high(zones, i, x, number_of_leds), colormapping[i + 1]>> >>

\* the entry band i writes for key x
band_entry(zones, i, x, number_of_leds) ==
    << <<number_of_leds - led_count_high(zones, i, x, number_of_leds), colormapping[i]>>,
       <<led_count_high(zones, i, x, number_of_leds), colormapping[i + 1]>> >>

\* color_zones.update(temp_color_zones): the last band that holds x wins
band_of(zones, x) ==
    CHOOSE i \in bands(zones) :
        /\ x \in band_range(zones, i)
        /\ \A j \in bands(zones) : j > i => x \notin band_range(zones, j)

get_zone_colormapping(zones, number_of_leds) ==
    [x \in UNION {band_range(zones, i) : i \in bands(zones)} |->
        band_entry(zones, band_of(zones, x), x, number_of_leds)]

\* the exception band i of the loop ends with: led_step (line 121) divides by
\* the width of the band; the comprehension (lines 124-128) indexes the
\* palette once per key of range(zone_value, zones[i+1]), not at all when the
\* range is empty
band_raises(zones, i) ==
    IF zones[i + 1] = zones[i] THEN "ZeroDivisionError"
    ELSE IF band_range(zones, i) # {} /\ i + 1 > Len(colormapping) THEN "IndexError"
    ELSE "None"

\* the exception get_zone_colormapping(zones, number_of_leds) ends with: that
\* of the first band that raises, "None" when the dict is returned
get_zone_colormapping_raises(zones) ==
    LET failing == {i \in bands(zones) : band_raises(zones, i) # "None"}
    IN  IF failing = {} THEN "None"
        ELSE band_raises(zones, CHOOSE i \in failing : \A j \in failing : i <= j)

\* mapping[key]: the entry, or KeyError when the key is not in the dict
subscript(mapping, key) ==
    IF key \in DOMAIN mapping
    THEN [raises |-> "None", value |-> <<mapping[key]>>]
    ELSE [raises |-> "KeyError", value |-> <<>>]

(***************************************************************************)
(* led_control.LEDController, as the Monitor calls it.  A call is a record *)
(* [raises, sent]: the exception it ends with, and the settings it wrote   *)
(* to the strip.                                                           *)
(***************************************************************************)
\* def set_led_color_range(self, setting, flash=False), called with the
\* setting in first position: self.update_led.set_led_color_range(new_color)
set_led_color_range(setting, flash) ==
    [raises |-> "None", sent |-> <<[setting |-> setting, flash |-> flash]>>]

\* PAIRED_COLOR[-1]: the colour LEDController.__init__ leaves on every LED
\* (change_led_color fills the strip with each colour of PAIRED_COLOR in turn)
paired_color_last == <<251, 3, 201>>

\* the strip after LEDController.__init__ on number_of_leds LEDs
strip_init(number_of_leds) == [j \in 1..number_of_leds |-> paired_color_last]

\* self.strip.fill((0, 0, 0))
fill_black(leds) == [j \in DOMAIN leds |-> <<0, 0, 0>>]

\* self.strip[:leds1] = color1: LEDs 0 .. leds1 - 1 take the colour
\* (LED j of Python is LED j + 1 here)
set_slice_upto(leds, leds1, color1) ==
    [j \in DOMAIN leds |-> IF j <= leds1 THEN color1 ELSE leds[j]]

\* self.strip[leds2:] = color2: LEDs leds2 .. number_leds - 1 take the colour
set_slice_from(leds, leds2, color2) ==
    [j \in DOMAIN leds |-> IF j > leds2 THEN color2 ELSE leds[j]]

\* lines 249-250, the two slice assignments in the order the method makes them
paint(leds, setting) ==
    set_slice_from(set_slice_upto(leds, setting[1][1], setting[1][2]),
                   setting[2][1], setting[2][2])

\* the strip when set_led_color_range(setting, flash) returns: with flash the
\* last round of the loop blanks the strip and paints it again
strip_after(leds, setting, flash) ==
    IF flash THEN paint(fill_black(paint(leds, setting)), setting)
    ELSE paint(leds, setting)

\* the call with color= as it would go were the parameter named color
set_led_color_range_color_kw_accepted(color, flash) ==
    set_led_color_range(color, flash)

\* the same method called as set_led_color_range(color=..., flash=True): the
\* method has no parameter named color, so the call raises TypeError before
\* its body runs
set_led_color_range_color_kw(color, flash) ==
    [raises |-> "TypeError", sent |-> <<>>]

\* self.update_led(color=color): update_led is the LEDController instance,
\* a class without __call__, so the call raises TypeError
update_led_call(color) ==
    [raises |-> "TypeError", sent |-> <<>>]

(***************************************************************************)
(* color_setting.get_ant_constants.  A scalar of the YAML file is a record *)
(* [kind, n]: an integer n, or the string of the digits of n.              *)
(***************************************************************************)
yaml_scalars(values) == [kind : {"int", "str"}, n : values]

\* int(x) of a YAML scalar
int(x) == x.n

\* the dict get_ant_constants builds from the loaded file
get_ant_constants(contents) ==
    [SERIAL |-> contents.ANT.SERIAL,
     NETKEY |-> contents.ANT.NETKEY,
     LEDS |-> int(contents.ANT.LEDS),
     TIME_DELAY |-> int(contents.ANT.TIME_DELAY),
     NUMBER_POWER_VALUES |-> int(contents.ANT.POWER_AVERAGING)]

\* the constants file that gives the Monitor the configuration above
default_file_contents ==
    [ANT |-> [SERIAL |-> "/dev/ttyUSB0",
              NETKEY |-> "netkey",
              LEDS |-> [kind |-> "int", n |-> number_leds],
              TIME_DELAY |-> [kind |-> "int", n |-> time_delay],
              POWER_AVERAGING |-> [kind |-> "int", n |-> number_measurements_to_average]]]

\* main, line 306: the constants are read before the Monitor is built
ConfigRead ==
    /\ file_contents = default_file_contents
    /\ ant_constants = <<get_ant_constants(default_file_contents)>>

(***************************************************************************)
(* led_control.Monitor                                                     *)
(***************************************************************************)
colormapping_power == get_zone_colormapping(zones_power, number_leds)
colormapping_hr == get_zone_colormapping(zones_hr, number_leds)

RECURSIVE sum(_)
sum(s) == IF s = <<>> THEN 0 ELSE Head(s) + sum(Tail(s))

\* int(sum(self.previous_power_values) / len(self.previous_power_values))
average(values) == sum(values) \div Len(values)

\* push without line 173: the new value is appended and nothing is deleted
push_keeps_all(values, new_power_value) == values \o <<new_power_value>>

\* push that makes room at the end: del self.previous_power_values[-1]
push_drops_newest(values, new_power_value) ==
    SubSeq(values, 1, Len(values) - 1) \o <<new_power_value>>

\* del self.previous_power_values[0]; self.previous_power_values.append(new_power_value)
push(values, new_power_value) == Tail(values) \o <<new_power_value>>

\* Monitor.__init__ starting from the setting of the lowest power value
\* instead of (1000, 1000, 1000)
MonitorInit_starts_on_a_setting ==
    /\ power_last_update = None
    /\ hr_last_update = None
    /\ power = TRUE
    /\ previous_color_value = colormapping_power[zones_power[1]]
    /\ counter = 0
    /\ previous_power_values = [i \in 1..number_measurements_to_average |-> 0]
    /\ now = 0
    /\ strip_log = <<>>
    /\ sink_last = <<>>
    /\ strip = strip_init(number_leds)
    /\ raised = "None"
    /\ calls = 0
    /\ last_call = "none"
    /\ last_value = 0
    /\ called_at = 0

\* Monitor.__init__
MonitorInit ==
    /\ power_last_update = None
    /\ hr_last_update = None
    /\ power = TRUE
    /\ previous_color_value = <<1000, 1000, 1000>>
    /\ counter = 0
    /\ previous_power_values = [i \in 1..number_measurements_to_average |-> 0]
    /\ now = 0
    /\ strip_log = <<>>
    /\ sink_last = <<>>
    /\ strip = strip_init(number_leds)
    /\ raised = "None"
    /\ calls = 0
    /\ last_call = "none"
    /\ last_value = 0
    /\ called_at = 0

MapIdle ==
    /\ ConfigRead
    /\ power_history = <<>>
    /\ mzones = zones_hr
    /\ mleds = number_leds
    /\ mkey = 0
    /\ mres = [raises |-> "None", value |-> <<>>]

Init == MonitorInit /\ MapIdle

\* what a handler call leaves in the bookkeeping variables of the model
Called(name, value, exception, sent) ==
    /\ calls' = calls + 1
    /\ last_call' = name
    /\ last_value' = value
    /\ called_at' = now
    /\ raised' = exception
    /\ strip_log' = sent
    /\ sink_last' = IF sent = <<>> THEN sink_last ELSE <<sent[Len(sent)]>>
    /\ strip' = IF sent = <<>> THEN strip
                ELSE strip_after(strip, sent[Len(sent)].setting, sent[Len(sent)].flash)

\* power_decide without the comparison of line 188: every reading is sent
power_decide_always_sends(new_power_value, new_color) ==
    LET call == set_led_color_range(new_color, ~power) IN
    /\ power' = TRUE
    /\ previous_color_value' = new_color
    /\ counter' = 0
    /\ Called("power", new_power_value, call.raises, call.sent)

\* power_decide with line 190 restored (change_led_color after
\* set_led_color_range): a changed setting goes to the LED controller twice
power_decide_sends_twice(new_power_value, new_color) ==
    IF ~power
    THEN LET call == set_led_color_range_color_kw(new_color, TRUE) IN
         /\ power' = TRUE
         /\ previous_color_value' =
                IF call.raises = "None" THEN new_color ELSE previous_color_value
         /\ counter' = counter + 1
         /\ Called("power", new_power_value, call.raises, call.sent)
    ELSE IF new_color # previous_color_value
    THEN LET call == set_led_color_range(new_color, FALSE) IN
         /\ power' = power
         /\ previous_color_value' = new_color
         /\ counter' = IF call.raises = "None" THEN 0 ELSE counter + 1
         /\ Called("power", new_power_value, call.raises, call.sent \o call.sent)
    ELSE /\ power' = power
         /\ previous_color_value' = previous_color_value
         /\ counter' = counter + 1
         /\ Called("power", new_power_value, "None", <<>>)

\* power_decide without line 188: the setting sent is not remembered
power_decide_forgets(new_power_value, new_color) ==
    IF ~power
    THEN LET call == set_led_color_range_color_kw(new_color, TRUE) IN
         /\ power' = TRUE
         /\ previous_color_value' =
                IF call.raises = "None" THEN new_color ELSE previous_color_value
         /\ counter' = counter + 1
         /\ Called("power", new_power_value, call.raises, call.sent)
    ELSE IF new_color # previous_color_value
    THEN LET call == set_led_color_range(new_color, FALSE) IN
         /\ power' = power
         /\ previous_color_value' = previous_color_value
         /\ counter' = IF call.raises = "None" THEN 0 ELSE counter + 1
         /\ Called("power", new_power_value, call.raises, call.sent)
    ELSE /\ power' = power
         /\ previous_color_value' = previous_color_value
         /\ counter' = counter + 1
         /\ Called("power", new_power_value, "None", <<>>)

\* power_decide sending a changed setting with flash=True although the power
\* channel was already the active one
power_decide_flashes(new_power_value, new_color) ==
    IF ~power
    THEN LET call == set_led_color_range_color_kw(new_color, TRUE) IN
         /\ power' = TRUE
         /\ previous_color_value' =
                IF call.raises = "None" THEN new_color ELSE previous_color_value
         /\ counter' = counter + 1
         /\ Called("power", new_power_value, call.raises, call.sent)
    ELSE IF new_color # previous_color_value
    THEN LET call == set_led_color_range(new_color, TRUE) IN
         /\ power' = power
         /\ previous_color_value' = new_color
         /\ counter' = IF call.raises = "None" THEN 0 ELSE counter + 1
         /\ Called("power", new_power_value, call.raises, call.sent)
    ELSE /\ power' = power
         /\ previous_color_value' = previous_color_value
         /\ counter' = counter + 1
         /\ Called("power", new_power_value, "None", <<>>)

\* the part of on_power_data after the lookup (lines 180-193)
power_decide(new_power_value, new_color) ==
    IF ~power
    THEN LET call == set_led_color_range_color_kw(new_color, TRUE) IN
         /\ power' = TRUE
         /\ previous_color_value' =
                IF call.raises = "None" THEN new_color ELSE previous_color_value
         /\ counter' = counter + 1
         /\ Called("power", new_power_value, call.raises, call.sent)
    ELSE IF new_color # previous_color_value
    THEN LET call == set_led_color_range(new_color, FALSE) IN
         /\ power' = power
         /\ previous_color_value' = new_color
         /\ counter' = IF call.raises = "None" THEN 0 ELSE counter + 1
         /\ Called("power", new_power_value, call.raises, call.sent)
    ELSE /\ power' = power
         /\ previous_color_value' = previous_color_value
         /\ counter' = counter + 1
         /\ Called("power", new_power_value, "None", <<>>)

\* on_power_data looking up the reading itself instead of the average
on_power_data_looks_up_raw(new_power_value) ==
    LET values == push(previous_power_values, new_power_value)
        found == subscript(colormapping_power, new_power_value)
    IN  /\ calls < MaxCalls
        /\ power_last_update' = now
        /\ previous_power_values' = values
        /\ IF found.raises # "None"
           THEN /\ counter' = counter + 1
                /\ Called("power", new_power_value, found.raises, <<>>)
                /\ UNCHANGED <<power, previous_color_value>>
           ELSE power_decide(new_power_value, found.value[1])
        /\ UNCHANGED <<hr_last_update, now>>
        /\ UNCHANGED map_vars
        /\ UNCHANGED config_vars

\* Monitor.on_power_data(data), new_power_value = data[6]
on_power_data(new_power_value) ==
    LET values == push(previous_power_values, new_power_value)
        average_power == average(values)
        found == subscript(colormapping_power, average_power)
    IN  /\ calls < MaxCalls
        /\ power_last_update' = now
        /\ previous_power_values' = values
        /\ IF found.raises # "None"
           THEN /\ counter' = counter + 1
                /\ Called("power", new_power_value, found.raises, <<>>)
                /\ UNCHANGED <<power, previous_color_value>>
           ELSE power_decide(new_power_value, found.value[1])
        /\ UNCHANGED <<hr_last_update, now>>
        /\ UNCHANGED map_vars
        /\ UNCHANGED config_vars

\* the part of on_hr_data after hr_last_update is set (lines 204-210)
hr_decide(data_value, color) ==
    IF power
    THEN IF power_last_update = None
         \* self.hr_last_update - None: datetime minus NoneType raises TypeError
         THEN /\ power' = power
              /\ Called("hr", data_value, "TypeError", <<>>)
         ELSE IF now - power_last_update > time_delay
         THEN LET call == set_led_color_range_color_kw(color, TRUE) IN
              /\ power' = IF call.raises = "None" THEN FALSE ELSE power
              /\ Called("hr", data_value, call.raises, call.sent)
         ELSE /\ power' = power
              /\ Called("hr", data_value, "None", <<>>)
    ELSE LET call == update_led_call(color) IN
         /\ power' = power
         /\ Called("hr", data_value, call.raises, call.sent)

\* the exception on_hr_data ends with, as a function of what the method
\* reads: data[7], self.power, self.power_last_update and the clock
on_hr_data_raises(data_value, active, last_power, clock) ==
    LET found == subscript(colormapping_hr, data_value)
    IN  IF found.raises # "None" THEN found.raises
        ELSE IF ~active THEN update_led_call(found.value[1]).raises
        ELSE IF last_power = None THEN "TypeError"
        ELSE IF clock - last_power > time_delay
        THEN set_led_color_range_color_kw(found.value[1], TRUE).raises
        ELSE "None"

\* on_hr_data with line 202 moved above the lookup of line 199: the time of
\* the reading is stored before the lookup can raise
on_hr_data_stamps_first(data_value) ==
    LET found == subscript(colormapping_hr, data_value)
    IN  /\ calls < MaxCalls
        /\ hr_last_update' = now
        /\ IF found.raises # "None"
           THEN /\ Called("hr", data_value, found.raises, <<>>)
                /\ UNCHANGED power
           ELSE hr_decide(data_value, found.value[1])
        /\ UNCHANGED <<power_last_update, previous_color_value, counter,
                       previous_power_values, now>>
        /\ UNCHANGED map_vars
        /\ UNCHANGED filter_vars
        /\ UNCHANGED config_vars

\* Monitor.on_hr_data(data), data_value = int(data[7])
on_hr_data(data_value) ==
    LET found == subscript(colormapping_hr, data_value)
    IN  /\ calls < MaxCalls
        /\ IF found.raises # "None"
           THEN /\ Called("hr", data_value, found.raises, <<>>)
                /\ UNCHANGED <<power, hr_last_update>>
           ELSE /\ hr_last_update' = now
                /\ hr_decide(data_value, found.value[1])
        /\ UNCHANGED <<power_last_update, previous_color_value, counter,
                       previous_power_values, now>>
        /\ UNCHANGED map_vars
        /\ UNCHANGED filter_vars
        /\ UNCHANGED config_vars

\* Tick with a timer that hands the LEDs to the heart-rate channel once the
\* last Power reading is older than time_delay
Tick_times_out ==
    /\ now < MaxTime
    /\ now' = now + 1
    /\ power' = IF power_last_update # None /\ now' - power_last_update > time_delay
                THEN FALSE ELSE power
    /\ UNCHANGED <<power_last_update, hr_last_update, previous_color_value,
                   counter, previous_power_values, strip_log, sink_last, strip,
                   raised, calls, last_call, last_value, called_at>>
    /\ UNCHANGED map_vars
    /\ UNCHANGED filter_vars
    /\ UNCHANGED config_vars

\* time passes between two payloads: the main loop only sleeps (lines 332-333)
Tick ==
    /\ now < MaxTime
    /\ now' = now + 1
    /\ UNCHANGED <<power, power_last_update, hr_last_update, previous_color_value,
                   counter, previous_power_values, strip_log, sink_last, strip,
                   raised, calls, last_call, last_value, called_at>>
    /\ UNCHANGED map_vars
    /\ UNCHANGED filter_vars
    /\ UNCHANGED config_vars

\* the payloads the ANT node delivers: one byte of data per reading
PowerReading == \E v \in 0..MaxRaw : on_power_data(v) /\ UNCHANGED filter_vars
HrReading == \E v \in 0..MaxRaw : on_hr_data(v)

Next == PowerReading \/ HrReading \/ Tick

Spec == Init /\ [][Next]_vars

(***************************************************************************)
(* The mapping on its own: get_zone_colormapping applied to zone sequences *)
(* and LED counts drawn from bounded sets, and to the zones of the unit    *)
(* test, followed by lookups in the dict it returns.                       *)
(***************************************************************************)
\* HeartRateColorZones.setUpClass: cls.zones_hr, and number_of_leds=100
test_zones_hr == <<0, 141, 150, 158, 167, 172, 178, 255>>
test_number_of_leds == 100

strictly_increasing(zones) == \A i \in 1 .. (Len(zones) - 1) : zones[i] < zones[i + 1]

ZoneSeqs ==
    {z \in UNION {[1..n -> 0..MaxZone] : n \in 2..MaxZoneLen} : strictly_increasing(z)}

MapInit ==
    /\ ConfigRead
    /\ power_history = <<>>
    /\ \/ mzones \in ZoneSeqs /\ mleds \in 1..MaxLeds
       \/ mzones = test_zones_hr /\ mleds = test_number_of_leds
    /\ mkey = 0
    /\ mres = [raises |-> "None", value |-> <<>>]

\* zone_colormapping[key]
MapLookup(key) ==
    /\ mkey' = key
    /\ mres' = subscript(get_zone_colormapping(mzones, mleds), key)
    /\ UNCHANGED <<mzones, mleds>>
    /\ UNCHANGED monitor_vars
    /\ UNCHANGED filter_vars
    /\ UNCHANGED config_vars

MapKeys == (-1 .. (MaxZone + 1)) \cup {mzones[Len(mzones)] - 1, mzones[Len(mzones)]}

MapNext == \E key \in MapKeys : MapLookup(key)

InitMap == MonitorInit /\ MapInit

SpecMap == InitMap /\ [][MapNext]_vars

(***************************************************************************)
(* The rolling average on its own: a Monitor built with                    *)
(* number_measurements_to_average drawn from 1..MaxCapacity and given      *)
(* Power readings only, the raw values recorded in power_history.          *)
(***************************************************************************)
InitFilter ==
    /\ power_last_update = None
    /\ hr_last_update = None
    /\ power = TRUE
    /\ previous_color_value = <<1000, 1000, 1000>>
    /\ counter = 0
    /\ \E k \in 1..MaxCapacity : previous_power_values = [i \in 1..k |-> 0]
    /\ now = 0
    /\ strip_log = <<>>
    /\ sink_last = <<>>
    /\ strip = strip_init(number_leds)
    /\ raised = "None"
    /\ calls = 0
    /\ last_call = "none"
    /\ last_value = 0
    /\ called_at = 0
    /\ MapIdle

FilterPush ==
    \E v \in 0..MaxRaw :
        /\ on_power_data(v)
        /\ power_history' = Append(power_history, v)

NextFilter == FilterPush

SpecFilter == InitFilter /\ [][NextFilter]_vars

(***************************************************************************)
(* The LED controller on its own: a strip of mleds LEDs, as                *)
(* LEDController.__init__ leaves it, is given descriptors of the mapping   *)
(* get_zone_colormapping(mzones, mleds), with and without flash.           *)
(***************************************************************************)
InitStrip ==
    /\ power_last_update = None
    /\ hr_last_update = None
    /\ power = TRUE
    /\ previous_color_value = <<1000, 1000, 1000>>
    /\ counter = 0
    /\ previous_power_values = [i \in 1..number_measurements_to_average |-> 0]
    /\ now = 0
    /\ strip_log = <<>>
    /\ sink_last = <<>>
    /\ raised = "None"
    /\ calls = 0
    /\ last_call = "none"
    /\ last_value = 0
    /\ called_at = 0
    /\ MapInit
    /\ strip = strip_init(mleds)

\* leds.set_led_color_range(zone_colormapping[key], flash)
SetLedColorRange(key, flash) ==
    LET found == subscript(get_zone_colormapping(mzones, mleds), key)
        call == set_led_color_range(found.value[1], flash)
    IN  /\ found.raises = "None"
        /\ mkey' = key
        /\ mres' = found
        /\ strip_log' = call.sent
        /\ sink_last' = <<call.sent[1]>>
        /\ strip' = strip_after(strip, found.value[1], flash)
        /\ UNCHANGED <<power, power_last_update, hr_last_update, previous_color_value,
                       counter, previous_power_values, now, raised, calls, last_call,
                       last_value, called_at, mzones, mleds>>
        /\ UNCHANGED filter_vars
        /\ UNCHANGED config_vars

NextStrip == \E key \in MapKeys, flash \in BOOLEAN : SetLedColorRange(key, flash)

SpecStrip == InitStrip /\ [][NextStrip]_vars

(***************************************************************************)
(* The construction of a mapping on its own: get_zone_colormapping called  *)
(* with any zone sequence over 0..MaxZone, increasing or not, and with a   *)
(* sequence of one boundary more than the palette has colours.             *)
(***************************************************************************)
AnyZoneSeqs == UNION {[1..n -> 0..MaxZone] : n \in 2..MaxZoneLen}

zones_beyond_palette == [i \in 1 .. (Len(colormapping) + 1) |-> i - 1]

InitBuild ==
    /\ MonitorInit
    /\ ConfigRead
    /\ power_history = <<>>
    /\ mzones \in AnyZoneSeqs \cup {zones_beyond_palette}
    /\ mleds \in 1..MaxLeds
    /\ mkey = 0
    /\ mres = [raises |-> "None", value |-> <<>>]

\* zone_colormapping = get_zone_colormapping(zones, number_of_leds): mres
\* takes the exception of the call and, when there is none, the dict returned
Build ==
    LET exception == get_zone_colormapping_raises(mzones) IN
    /\ mres' = [raises |-> exception,
                value |-> IF exception = "None"
                          THEN <<get_zone_colormapping(mzones, mleds)>>
                          ELSE <<>>]
    /\ UNCHANGED <<mzones, mleds, mkey>>
    /\ UNCHANGED monitor_vars
    /\ UNCHANGED filter_vars
    /\ UNCHANGED config_vars

NextBuild == Build

SpecBuild == InitBuild /\ [][NextBuild]_vars

(***************************************************************************)
(* led_control_testing_power_values.get_zone_colormapping: the mapping of  *)
(* the earlier script, one colour per band, and lookups in the dict it     *)
(* returns.                                                                *)
(***************************************************************************)
\* colormapping = (z1, ..., z7)
discrete_colormapping ==
    << <<132, 132, 130>>, <<0, 0, 255>>, <<0, 204, 34>>, <<255, 255, 0>>,
       <<255, 128, 0>>, <<255, 0, 0>>, <<251, 3, 201>> >>

\* discrete_entry taking the colour of the band above
discrete_entry_above(i, x) == discrete_colormapping[i + 1]

\* x: colormapping[i], the value band i writes for key x
discrete_entry(i, x) == discrete_colormapping[i]

discrete_get_zone_colormapping(zones) ==
    [x \in UNION {band_range(zones, i) : i \in bands(zones)} |->
        discrete_entry(band_of(zones, x), x)]

\* color_zones[key]
DiscreteLookup(key) ==
    /\ mkey' = key
    /\ mres' = subscript(discrete_get_zone_colormapping(mzones), key)
    /\ UNCHANGED <<mzones, mleds>>
    /\ UNCHANGED monitor_vars
    /\ UNCHANGED filter_vars
    /\ UNCHANGED config_vars

NextDiscrete == \E key \in MapKeys : DiscreteLookup(key)

InitDiscrete == MonitorInit /\ MapInit

SpecDiscrete == InitDiscrete /\ [][NextDiscrete]_vars

(***************************************************************************)
(* get_ant_constants on its own: a constants file with values drawn from   *)
(* bounded sets is loaded and the dict is built from it.                   *)
(***************************************************************************)
InitConfig ==
    /\ MonitorInit
    /\ power_history = <<>>
    /\ mzones = zones_hr
    /\ mleds = number_leds
    /\ mkey = 0
    /\ mres = [raises |-> "None", value |-> <<>>]
    /\ file_contents \in
           [ANT : [SERIAL : {"/dev/ttyUSB0", "/dev/ttyUSB1"},
                   NETKEY : {"netkey"},
                   LEDS : yaml_scalars(1..MaxLeds),
                   TIME_DELAY : yaml_scalars(0..MaxTime),
                   POWER_AVERAGING : yaml_scalars(1..MaxCapacity)]]
    /\ ant_constants = <<>>

\* ant_constants = color_setting.get_ant_constants(pth_file=...)
GetAntConstants ==
    /\ ant_constants' = <<get_ant_constants(file_contents)>>
    /\ UNCHANGED file_contents
    /\ UNCHANGED monitor_vars
    /\ UNCHANGED map_vars
    /\ UNCHANGED filter_vars

NextConfig == GetAntConstants

SpecConfig == InitConfig /\ [][NextConfig]_vars

(***************************************************************************)
(* The heart-rate channel never becomes the active one: line 208           *)
(* (self.power = False) follows a call that always raises, and nothing     *)
(* else assigns False to self.power.                                       *)
(***************************************************************************)
PowerAlwaysActive == power = TRUE

(***************************************************************************)
(* Vocabulary of the properties.  A step is a call of a handler when it    *)
(* adds one to calls; last_call' and last_value' then name the handler and *)
(* the raw value it was given.                                             *)
(***************************************************************************)
PowerStep == calls' = calls + 1 /\ last_call' = "power"
HrStep == calls' = calls + 1 /\ last_call' = "hr"

\* the rolling average a Power step looks up, and whether the lookup hits
AverageAfter == average(previous_power_values')
PowerHit == AverageAfter \in DOMAIN colormapping_power
PowerColor == colormapping_power[AverageAfter]

\* the raw value a HeartRate step looks up, and whether the lookup hits
HrHit == last_value' \in DOMAIN colormapping_hr
HrColor == colormapping_hr[last_value']

\* the step sent exactly this setting to the LED controller / nothing at all
Emits(setting, flash) == strip_log' = <<[setting |-> setting, flash |-> flash]>>
EmitsNothing == strip_log' = <<>> /\ sink_last' = sink_last

(***************************************************************************)
(* C1: while the power channel is active, a Power reading whose average    *)
(* is in the mapping is sent to the LEDs if and only if its setting        *)
(* differs from previous_color_value; when sent, it is sent once, without  *)
(* flash, and becomes previous_color_value, so that a following reading    *)
(* with the same setting sends nothing and one with another setting sends  *)
(* again.                                                                  *)
(***************************************************************************)
C1_PowerHysteresis ==
    [][(PowerStep /\ power /\ PowerHit) =>
          /\ (strip_log' # <<>>) <=> (PowerColor # previous_color_value)
          /\ (PowerColor # previous_color_value) => Emits(PowerColor, FALSE)
          /\ (PowerColor = previous_color_value) => EmitsNothing
          /\ previous_color_value' = PowerColor
          /\ power']_vars

\* a Power reading was handled that sent nothing because its setting is the
\* one an earlier reading had already sent
C1_Witness ==
    /\ last_call = "power"
    /\ raised = "None"
    /\ strip_log = <<>>
    /\ sink_last # <<>>
    /\ sink_last[1].setting = colormapping_power[average(previous_power_values)]

(***************************************************************************)
(* C2: with power active and a Power reading received at t0, a HeartRate   *)
(* reading in the mapping arriving at t switches to the heart-rate channel *)
(* and sends its setting with flash if and only if t - t0 > time_delay;    *)
(* otherwise power stays active and nothing is sent.                       *)
(***************************************************************************)
C2_FailoverTiming ==
    [][(HrStep /\ power /\ power_last_update # None /\ HrHit) =>
          IF now - power_last_update > time_delay
          THEN ~power' /\ Emits(HrColor, TRUE)
          ELSE power' /\ EmitsNothing]_vars

(***************************************************************************)
(* C4: the mapping built from a strictly increasing zone sequence has as   *)
(* keys exactly the integers from min(zones) to max(zones) - 1, so         *)
(* max(zones) - min(zones) of them; a key below min(zones) or at or above  *)
(* max(zones) is a KeyError.  With the zones_hr of the unit test and 100   *)
(* LEDs, key 0 gives ((100, z1), (0, z2)) and key 255 is a KeyError.       *)
(***************************************************************************)
min_zone(zones) == CHOOSE z \in {zones[i] : i \in DOMAIN zones} :
                       \A i \in DOMAIN zones : z <= zones[i]
max_zone(zones) == CHOOSE z \in {zones[i] : i \in DOMAIN zones} :
                       \A i \in DOMAIN zones : z >= zones[i]

\* a lookup has been made: it raised, or it returned an entry
MapLooked == mres.raises = "KeyError" \/ mres.value # <<>>

C4_MappingDomain ==
    LET mapping == get_zone_colormapping(mzones, mleds)
        lo == min_zone(mzones)
        hi == max_zone(mzones)
    IN  /\ DOMAIN mapping = lo .. (hi - 1)
        /\ Cardinality(DOMAIN mapping) = hi - lo
        /\ MapLooked => ((mres.raises = "KeyError") <=> (mkey < lo \/ mkey >= hi))
        /\ MapLooked => ((mres.value # <<>>) <=> (lo <= mkey /\ mkey < hi))
        /\ (mzones = test_zones_hr /\ mleds = test_number_of_leds) =>
              /\ (mkey = 0 /\ mres.value # <<>>) =>
                     mres.value[1] = << <<100, colormapping[1]>>, <<0, colormapping[2]>> >>
              /\ mkey = 255 => mres.raises = "KeyError"

\* the unit test's mapping was asked for key 255 and answered KeyError
C4_Witness ==
    /\ mzones = test_zones_hr
    /\ mleds = test_number_of_leds
    /\ mkey = 255
    /\ mres.raises = "KeyError"

(***************************************************************************)
(* C5: a lookup that misses is not fatal on either channel: the handler    *)
(* returns without raising and sends nothing.                              *)
(***************************************************************************)
C5_MissNotRaised ==
    [][((PowerStep /\ ~PowerHit) \/ (HrStep /\ ~HrHit)) =>
          raised' = "None" /\ EmitsNothing]_vars

(***************************************************************************)
(* C6: a Power reading whose lookup misses changes nothing: the active     *)
(* channel, both timestamps, previous_color_value and the rolling buffer   *)
(* are as before.                                                          *)
(***************************************************************************)
C6_PowerMissNoChange ==
    [][(PowerStep /\ ~PowerHit) =>
          UNCHANGED <<power, power_last_update, hr_last_update,
                      previous_color_value, previous_power_values>>]_vars

(***************************************************************************)
(* C7: a HeartRate reading whose lookup misses changes nothing (active     *)
(* channel, both timestamps, previous_color_value) and sends nothing.      *)
(***************************************************************************)
C7_HrMissNoChange ==
    [][(HrStep /\ ~HrHit) =>
          /\ UNCHANGED <<power, hr_last_update, power_last_update,
                         previous_color_value>>
          /\ EmitsNothing]_vars

\* a HeartRate reading missed at a time when the last Power reading was older
\* than time_delay and the clock had moved since the last HeartRate reading
C7_Witness ==
    /\ last_call = "hr"
    /\ raised = "KeyError"
    /\ last_value \notin DOMAIN colormapping_hr
    /\ power_last_update # None
    /\ called_at - power_last_update > time_delay
    /\ hr_last_update # None
    /\ hr_last_update < called_at

(***************************************************************************)
(* C8: before any reading has been received, the first HeartRate reading   *)
(* in the mapping switches to the heart-rate channel and sends its setting *)
(* with flash, without failing for want of a Power timestamp.              *)
(***************************************************************************)
C8_FirstHrReading ==
    [][(HrStep /\ calls = 0 /\ HrHit) =>
          /\ raised' = "None"
          /\ ~power'
          /\ Emits(HrColor, TRUE)]_vars

C11_NothingBetweenReadings ==
    [][/\ (calls' = calls) =>
              /\ UNCHANGED <<power, power_last_update, hr_last_update,
                             previous_color_value, previous_power_values, counter,
                             strip_log, sink_last>>
       /\ (~power /\ power') => PowerStep]_vars

\* a setting has been sent and more than time_delay has passed since the last
\* reading of either kind
C11_Witness ==
    /\ calls > 0
    /\ now - called_at > time_delay
    /\ power_last_update # None
    /\ now - power_last_update > time_delay
    /\ sink_last # <<>>
    /\ power

\* the bands whose half-open interval [zones[i], zones[i+1]) holds v
bands_holding(zones, v) ==
    {i \in 1 .. (Len(zones) - 1) : zones[i] <= v /\ v < zones[i + 1]}

\* the parts of a descriptor ((countLow, colorLow), (countHigh, colorHigh))
countLow(d) == d[1][1]
colorLow(d) == d[1][2]
countHigh(d) == d[2][1]
colorHigh(d) == d[2][2]

\* descriptor d is well formed for band i and a strip of n LEDs
descriptor_ok(d, i, n) ==
    /\ countLow(d) + countHigh(d) = n
    /\ countLow(d) >= 0
    /\ countHigh(d) >= 0
    /\ colorLow(d) = colormapping[i]
    /\ colorHigh(d) = colormapping[i + 1]

(***************************************************************************)
(* C12: every descriptor of an interpolated mapping has                    *)
(* countLow + countHigh = number_of_leds, both counts non-negative,        *)
(* colorLow the palette colour of the band that holds the key and          *)
(* colorHigh the next palette colour; so has the descriptor a lookup       *)
(* returns.                                                                *)
(***************************************************************************)
C12_DescriptorShape ==
    LET mapping == get_zone_colormapping(mzones, mleds)
    IN  /\ \A v \in DOMAIN mapping :
               /\ bands_holding(mzones, v) # {}
               /\ \A i \in bands_holding(mzones, v) : descriptor_ok(mapping[v], i, mleds)
        /\ mres.value # <<>> =>
               \A i \in bands_holding(mzones, mkey) : descriptor_ok(mres.value[1], i, mleds)

\* a lookup returned a descriptor that splits the strip between two colours
C12_Witness ==
    /\ mres.value # <<>>
    /\ countLow(mres.value[1]) > 0
    /\ countHigh(mres.value[1]) > 0
    /\ bands_holding(mzones, mkey) = {2}

(***************************************************************************)
(* C13: in an interpolated mapping countHigh is 0 at the lower boundary of *)
(* every band and never decreases as the key grows within a band.          *)
(***************************************************************************)
C13_CountHighMonotone ==
    LET mapping == get_zone_colormapping(mzones, mleds)
    IN  /\ \A i \in 1 .. (Len(mzones) - 1) : countHigh(mapping[mzones[i]]) = 0
        /\ \A v, w \in DOMAIN mapping :
               (v <= w /\ bands_holding(mzones, v) = bands_holding(mzones, w)) =>
                   countHigh(mapping[v]) <= countHigh(mapping[w])
        /\ (mres.value # <<>> /\ \E i \in 1 .. (Len(mzones) - 1) : mkey = mzones[i]) =>
               countHigh(mres.value[1]) = 0

\* the lower boundary of the second band was looked up, in a mapping whose
\* second band also has a key with countHigh above 0
C13_Witness ==
    /\ Len(mzones) = 3
    /\ mkey = mzones[2]
    /\ mres.value # <<>>
    /\ countHigh(mres.value[1]) = 0
    /\ \E w \in DOMAIN get_zone_colormapping(mzones, mleds) :
           bands_holding(mzones, w) = {2} /\ countHigh(get_zone_colormapping(mzones, mleds)[w]) > 0

(***************************************************************************)
(* C14: a rolling average of capacity k that starts from k zeros is        *)
(* floor(x / k) after a single push of x, and exactly x once the last k    *)
(* pushes were all x.                                                      *)
(***************************************************************************)
C14_RollingAverage ==
    LET k == Len(previous_power_values)
        n == Len(power_history)
    IN  /\ n = 1 => average(previous_power_values) = power_history[1] \div k
        /\ n >= k =>
               \A x \in {power_history[j] : j \in 1..n} :
                   (\A j \in (n - k + 1) .. n : power_history[j] = x) =>
                       average(previous_power_values) = x

\* three pushes of 5 into a filter of capacity 3
C14_Witness ==
    /\ Len(previous_power_values) = 3
    /\ power_history = <<5, 5, 5>>
    /\ average(previous_power_values) = 5

(***************************************************************************)
(* C15: once a descriptor with countLow + countHigh = number of LEDs has   *)
(* been rendered, the first countLow LEDs of the strip show colorLow and   *)
(* the last countHigh LEDs show colorHigh, with or without flash.          *)
(***************************************************************************)
C15_SplitRendering ==
    sink_last # <<>> =>
        LET d == sink_last[1].setting
            n == Len(strip)
        IN  countLow(d) + countHigh(d) = n =>
                /\ \A j \in 1 .. countLow(d) : strip[j] = colorLow(d)
                /\ \A j \in (n - countHigh(d) + 1) .. n : strip[j] = colorHigh(d)

\* the call of get_zone_colormapping has been made
Built == mres.raises # "None" \/ mres.value # <<>>

\* the configuration is invalid: the zones are not strictly increasing, or
\* the palette has fewer colours than the zone sequence has boundaries
invalid_configuration(zones) ==
    \/ \E i \in 1 .. (Len(zones) - 1) : zones[i] >= zones[i + 1]
    \/ Len(colormapping) < Len(zones)

(***************************************************************************)
(* C16: building a mapping from an invalid configuration raises an error   *)
(* and returns no mapping, not even a partial one.                         *)
(***************************************************************************)
C16_InvalidConfigurationRaises ==
    (Built /\ invalid_configuration(mzones)) =>
        (mres.raises # "None" /\ mres.value = <<>>)

(***************************************************************************)
(* C17: a setting sent by a reading carries flash = TRUE exactly when that *)
(* reading changes the active channel.                                     *)
(***************************************************************************)
C17_FlashMarksHandOff ==
    [][(calls' = calls + 1) =>
          \A k \in 1 .. Len(strip_log') : strip_log'[k].flash = (power' # power)]_vars

\* a second Power reading changed the setting while the power channel stayed
\* the active one, and the setting went out without flash
C17_Witness ==
    /\ last_call = "power"
    /\ calls >= 2
    /\ power
    /\ strip_log # <<>>
    /\ strip_log[1].flash = FALSE
    /\ sink_last = strip_log

(***************************************************************************)
(* C18: in the discrete mapping every key of band i maps to the single     *)
(* colour palette[i], and the keys are exactly the integers from           *)
(* min(zones) up to, not including, max(zones); so answers a lookup.       *)
(***************************************************************************)
C18_DiscreteMapping ==
    LET mapping == discrete_get_zone_colormapping(mzones)
        lo == min_zone(mzones)
        hi == max_zone(mzones)
    IN  /\ DOMAIN mapping = lo .. (hi - 1)
        /\ \A x \in lo .. (hi - 1) :
               /\ bands_holding(mzones, x) # {}
               /\ \A i \in bands_holding(mzones, x) : mapping[x] = discrete_colormapping[i]
        /\ MapLooked => ((mres.value # <<>>) <=> (lo <= mkey /\ mkey < hi))
        /\ mres.value # <<>> =>
               \A i \in bands_holding(mzones, mkey) : mres.value[1] = discrete_colormapping[i]

\* a key of the second band was looked up and gave the second colour
C18_Witness ==
    /\ bands_holding(mzones, mkey) = {2}
    /\ mkey > mzones[2]
    /\ mres.value = <<discrete_colormapping[2]>>

\* the values self.power_last_update can hold
Timestamps == {None} \cup (0 .. MaxTime)

\* what a reading of one channel leaves alone of the other channel, and the
\* value each channel looks up
separate_frames ==
    /\ HrStep =>
           /\ UNCHANGED <<previous_power_values, power_last_update>>
           /\ (raised' = "KeyError") <=> ~HrHit
    /\ PowerStep =>
           /\ UNCHANGED hr_last_update
           /\ (raised' = "KeyError") <=> ~PowerHit
           /\ PowerHit => previous_color_value' = PowerColor
           /\ \A k \in 1 .. Len(strip_log') : strip_log'[k].setting = PowerColor

(***************************************************************************)
(* C19 as stated: a HeartRate reading is looked up with its raw value and  *)
(* neither reads nor modifies the rolling buffer or power_last_update, so  *)
(* it ends the same way whatever power_last_update holds; a Power reading  *)
(* is looked up with the rolling average and leaves hr_last_update alone.  *)
(***************************************************************************)
C19_ChannelSeparation ==
    [][/\ separate_frames
       /\ HrStep =>
              \A t \in Timestamps :
                  on_hr_data_raises(last_value', power, t, now) = raised']_vars

(***************************************************************************)
(* C19 amended: a HeartRate reading is looked up with its raw value, never *)
(* modifies the rolling buffer or power_last_update, and ends as a         *)
(* function of its value, the active channel, power_last_update and the    *)
(* clock (it reads power_last_update for the failover test, never the      *)
(* rolling buffer); a Power reading is looked up with the rolling average  *)
(* and leaves hr_last_update alone.                                        *)
(***************************************************************************)
C19_ChannelSeparationAmended ==
    [][/\ separate_frames
       /\ HrStep =>
              raised' = on_hr_data_raises(last_value', power, power_last_update, now)]_vars

\* a HeartRate reading was handled without raising after Power readings had
\* filled the rolling buffer with something other than zeros
C19_Witness ==
    /\ last_call = "hr"
    /\ raised = "None"
    /\ hr_last_update = called_at
    /\ power_last_update # None
    /\ \E j \in DOMAIN previous_power_values : previous_power_values[j] # 0

(***************************************************************************)
(* C20: the dict get_ant_constants returns has exactly 2 entries, one of   *)
(* which maps 'SERIAL' to the serial path of the constants file.           *)
(***************************************************************************)
C20_AntConstantsTwoEntries ==
    ant_constants # <<>> =>
        /\ Cardinality(DOMAIN ant_constants[1]) = 2
        /\ "SERIAL" \in DOMAIN ant_constants[1]
        /\ ant_constants[1].SERIAL = file_contents.ANT.SERIAL

(***************************************************************************)
(* C21: a Power reading leaves the rolling buffer with the k elements it   *)
(* had, which are the k most recent raw values in arrival order, padded at *)
(* the front with the initial zeros; the push evicts exactly the oldest    *)
(* element, and the value looked up is floor(sum of the buffer / k).       *)
(***************************************************************************)
C21_RollingBuffer ==
    [][PowerStep =>
          LET k == Len(previous_power_values)
              padded == [i \in 1..k |-> 0] \o power_history'
              n == Len(padded)
              looked_up == sum(previous_power_values') \div k
          IN  /\ k > 0
              /\ Len(previous_power_values') = k
              /\ previous_power_values' = SubSeq(padded, n - k + 1, n)
              /\ SubSeq(previous_power_values', 1, k - 1) = Tail(previous_power_values)
              /\ previous_power_values'[k] = last_value'
              /\ (raised' = "KeyError") <=> (looked_up \notin DOMAIN colormapping_power)
              /\ looked_up \in DOMAIN colormapping_power =>
                     previous_color_value' = colormapping_power[looked_up]]_vars

\* a filter of capacity 2 has had three readings: the first has been evicted
C21_Witness ==
    /\ Len(previous_power_values) = 2
    /\ power_history = <<5, 1, 2>>
    /\ previous_power_values = <<1, 2>>

(***************************************************************************)
(* C22: right after a Power reading whose lookup hits, the power channel   *)
(* is the active one and previous_color_value is the power mapping's       *)
(* descriptor of the current rolling average, whether or not the reading   *)
(* sent anything.                                                          *)
(***************************************************************************)
C22_AfterPowerHit ==
    [][(PowerStep /\ PowerHit) =>
          /\ power'
          /\ previous_color_value' = colormapping_power[average(previous_power_values')]]_vars

\* a Power reading hit the mapping and sent nothing, the setting being the
\* one already shown
C22_Witness ==
    /\ last_call = "power"
    /\ raised = "None"
    /\ strip_log = <<>>
    /\ calls >= 2
    /\ average(previous_power_values) \in DOMAIN colormapping_power
    /\ previous_color_value = colormapping_power[average(previous_power_values)]
    /\ power

(***************************************************************************)
(* C23: once a Power reading has been received, a HeartRate reading in the *)
(* mapping that arrives more than time_delay after the last Power reading  *)
(* leaves the heart-rate channel the active one, and the heart-rate        *)
(* channel stays the active one until a Power reading arrives.             *)
(***************************************************************************)
C23_FailoverHappens ==
    [][/\ (HrStep /\ HrHit /\ power_last_update # None
              /\ now - power_last_update > time_delay) => ~power'
       /\ (~power /\ ~PowerStep) => ~power']_vars

(***************************************************************************)
(* C24: the Monitor starts with the power channel active and with          *)
(* previous_color_value (1000, 1000, 1000), which no key of the power      *)
(* mapping has as its descriptor; so the first Power reading whose lookup  *)
(* hits, nothing having been sent before it, sends its setting, with       *)
(* flash = FALSE.                                                          *)
(***************************************************************************)
C24_FirstPowerReadingEmits ==
    /\ power = TRUE /\ previous_color_value = <<1000, 1000, 1000>>
    /\ \A v \in DOMAIN colormapping_power : colormapping_power[v] # <<1000, 1000, 1000>>
    /\ [][(PowerStep /\ PowerHit /\ sink_last = <<>>) =>
              (Emits(PowerColor, FALSE) /\ sink_last' = strip_log')]_vars

\* the second call is a Power reading that brings the average into the
\* mapping for the first time, and its setting has been sent
C24_Witness ==
    /\ calls = 2
    /\ last_call = "power"
    /\ previous_power_values = <<0, 2>>
    /\ strip_log # <<>>
    /\ strip_log[1].flash = FALSE
    /\ strip_log[1].setting = colormapping_power[1]

(***************************************************************************)
(* C25: handling one reading, of either channel, sends at most one setting *)
(* to the LED controller, and the LED controller holds the setting of the  *)
(* latest reading that sent one: settings arrive in the order the readings *)
(* were handled.                                                           *)
(***************************************************************************)
C25_AtMostOneEmission ==
    [][(calls' = calls + 1) =>
          /\ Len(strip_log') <= 1
          /\ sink_last' = IF strip_log' = <<>> THEN sink_last ELSE strip_log']_vars

\* two Power readings in a row each sent a setting, the second a different
\* one, which is the one the LED controller holds
C25_Witness ==
    /\ last_call = "power"
    /\ previous_power_values = <<2, 5>>
    /\ Len(strip_log) = 1
    /\ strip_log[1].setting = colormapping_power[3]
    /\ sink_last = strip_log
    /\ counter = 0

\* the lower boundaries of the bands
lower_edges(zones) == {zones[i] : i \in 1 .. (Len(zones) - 1)}

\* descriptor d of a strip of n LEDs keeps countHigh below n
counts_in_range(d, n) ==
    /\ 0 <= countHigh(d)
    /\ countHigh(d) <= n - 1
    /\ countLow(d) >= 1
    /\ countLow(d) <= n

=============================================================================
